---- MODULE Spec2Model ----
(***************************************************************************)
(* Model of ghibli-app/app.py: the stylization call                        *)
(* GhibliStyleTransfer.transform with its degradation chain                *)
(* (full segmentation pipeline -> apply_fallback_transform -> the image    *)
(* itself), run by request threads against the process-wide                *)
(* style_transfer object.                                                  *)
(*                                                                         *)
(* Fault model.  Every statement that computes with torch or PIL may       *)
(* raise; logging, timing and control statements do not.  A step's         *)
(* outcome f is drawn from the outcomes the code distinguishes for it.     *)
(* Since every except-handler of transform and apply_fallback_transform    *)
(* only logs and returns, no exception leaves transform, and the direct    *)
(* call of apply_fallback_transform in transform_image (line 657) is       *)
(* never reached.                                                          *)
(*                                                                         *)
(* Levels are numbered as in the design text: 0 = segmentation pipeline,   *)
(* 2 = apply_fallback_transform (PIL filter chain), 3 = the image itself.  *)
(* app.py has no accelerator direct filter (level 1).                      *)
(*                                                                         *)
(* Specifications.                                                         *)
(*   Spec, SpecConc  the stylization call and its degradation chain, with  *)
(*                   symbolic images and tensors                           *)
(*   SpecPix         one Level 0 run followed value by value on small      *)
(*                   grids: normalized input, masks, region stages, global *)
(*                   grade, edge-aware blend, NaN handling, postprocess    *)
(*   SpecGrade       the mask loop and the region stages as a function of  *)
(*                   a buffer of values in [0, 1]                          *)
(*   SpecReq         the /transform endpoint: request ids and the paths    *)
(*                   the images are saved under                            *)
(***************************************************************************)
EXTENDS Integers, Sequences, FiniteSets, TLC

\* ------------------------------------------------------------------ bounds
NumRequests == 2      \* request threads
MaxCalls    == 2      \* stylization calls started over a run
NumClasses  == 3      \* classes scored by the classifier (output.shape[0])

Requests == 1..NumRequests
Classes  == 0..(NumClasses - 1)

\* --------------------------------------------------------- program constants
ModelSize        == 512     \* transforms.Resize((512, 512))
IntermediateSize == 1024    \* intermediate_size = (1024, 1024)
LargeLimit       == 2000    \* width > 2000 or height > 2000

\* ------------------------------------------------------------------ inputs
\* images passed to the call: the degenerate 1x1 image, an ordinary one in RGB
\* and in a mode that needs conversion, and one above the large-image limit
Sizes  == {<<1, 1>>, <<640, 480>>, <<2400, 1800>>}
Modes  == {"RGB", "L"}
Images ==
    {[size |-> s, mode |-> m, px |-> <<"orig">>, graded |-> <<>>] : s \in Sizes, m \in Modes}
        \ {im \in [size : Sizes, mode : Modes, px : {<<"orig">>}, graded : {<<>>}] :
               \/ im.size = <<1, 1>> /\ im.mode = "L"
               \/ im.size = <<2400, 1800>> /\ im.mode = "RGB"}
ConcImages == {im \in Images : im.size = <<640, 480>>}

NoImage  == [size |-> <<0, 0>>, mode |-> "none", px |-> <<>>, graded |-> <<>>]
NoTensor == [shape |-> <<>>, base |-> "unbound", graded |-> <<>>, ops |-> <<>>]
ObjNames == {"arg", "rgb", "copy", "out", "pil"}
NoRef    == "none"
EmptyHeap == [o \in ObjNames |-> NoImage]

VARIABLES
    model,         \* style_transfer.model: "loaded" or "None"
    device,        \* style_transfer.device.type: "cuda" or "cpu"
    served,        \* stylization calls started so far
    pc,            \* pc[r]: position of request r inside the call
    heap,          \* heap[r]: the PIL image objects the call of r can reach
    arg0,          \* arg0[r]: value of the caller's image when the call began
    image,         \* image[r]: object the local name `image` is bound to
    input_tensor,  \* input_tensor[r]
    output,        \* output[r]: the local name `output`
    masks,         \* masks[r]: class ids whose mask was appended, in order
    stylized,      \* stylized[r]
    result,        \* result[r]: object returned by the call
    level,         \* level[r]: level whose code produced result[r]
    failed,        \* failed[r]: stages that raised in this call
    trace,         \* trace[r]: levels entered, classifier calls, cleanups
    \* one Level 0 run followed value by value on a small grid
    scene,         \* the image and the class map the run is given
    phase,         \* last statement group of the run that has completed
    buf,           \* the values of stylized, buf[c][p], in units of 1/One
    before,        \* buf as it was when the last stage began
    mask_list,     \* the list masks, each mask with the class it was built for
    edge_strength, \* edge_strength[p]
    nonfinite,     \* entries of stylized a NaN or an infinity was put in, with
                   \* what they hold now
    pil_image,     \* the bytes of the image postprocess returns
    \* the /transform endpoint
    clock,         \* time.time() in milliseconds
    arrivals,      \* requests received so far
    uploads,       \* writes to UPLOAD_FOLDER: the path and the number of the
                   \* request that wrote it
    req            \* req[r]: the request thread r serves: position, number,
                   \* request id, file name and paths

calls == <<model, device, served, pc, heap, arg0, image, input_tensor, output,
           masks, stylized, result, level, failed, trace>>
pixel == <<scene, phase, buf, before, mask_list, edge_strength, nonfinite, pil_image>>
endpoint == <<clock, arrivals, uploads, req>>

vars == <<calls, pixel, endpoint>>

shared == <<model, device>>

\* ------------------------------------------------------------ pure helpers
Channels(mode) == IF mode = "RGB" THEN 3 ELSE 1

\* image.convert('RGB'): a new image
ConvertRGB(im) == [im EXCEPT !.mode = "RGB", !.px = Append(im.px, "convert")]

\* image.copy()
ImageCopy(im) == im

\* variant: the tensor keeps the size of the image (no Resize((512, 512)))
PreprocessShape_NoResize(im) == <<1, Channels(im.mode), im.size[2], im.size[1]>>

\* preprocess, lines 109-123: optional intermediate resize, Resize((512, 512)),
\* ToTensor ([C, H, W]), Normalize, unsqueeze(0)
PreprocessShape(im) ==
    LET step1 == IF im.size[1] > LargeLimit \/ im.size[2] > LargeLimit
                 THEN <<IntermediateSize, IntermediateSize>>
                 ELSE im.size
        step2 == IF step1 = <<ModelSize, ModelSize>> THEN step1
                 ELSE <<ModelSize, ModelSize>>
    IN  <<1, Channels(im.mode), step2[2], step2[1]>>

\* preprocess, lines 129-137: the blank normalized tensor of the except branch
BlankInput ==
    [shape |-> <<1, 3, ModelSize, ModelSize>>, base |-> "blank", graded |-> <<>>, ops |-> <<>>]

\* model_output["out"][0] for a [1, 3, H, W] input: [num_classes, H, W]
ClassifierOutput(t) ==
    [shape |-> <<NumClasses, t.shape[3], t.shape[4]>>, base |-> "scores",
     graded |-> <<>>, ops |-> <<>>]

\* tensor.squeeze(0)
Squeeze0(shape) == IF Len(shape) > 0 /\ shape[1] = 1 THEN Tail(shape) ELSE shape

\* the mask loop, lines 273-294, for num_classes = n: a class whose mask raised is
\* logged and left out of the list
RECURSIVE MaskList(_, _, _)
MaskList(i, n, bad) ==
    IF i >= n THEN <<>>
    ELSE (IF i \in bad THEN <<>> ELSE <<i>>) \o MaskList(i + 1, n, bad)

\* the region stages, lines 310-334, in code order; a stage is applied for a class
\* id k only if k < len(masks), and then with the list element masks[k]
GroupOrder == << <<"sky", 0>>, <<"sky", 2>>, <<"sky", 9>>,
                 <<"veg", 3>>, <<"veg", 8>>,
                 <<"char", 1>>, <<"char", 15>> >>
GradingOps(ms) ==
    LET sel == SelectSeq(GroupOrder, LAMBDA g : g[2] < Len(ms))
    IN  [i \in 1..Len(sel) |-> <<sel[i][1], sel[i][2], ms[sel[i][2] + 1]>>]

\* lines 388-402: bring stylized to [1, C, H, W]
PrepareOutput(shape) ==
    IF Len(shape) = 3 /\ shape[1] = 3 THEN <<1>> \o shape
    ELSE IF Len(shape) = 2 THEN <<1, 3>> \o shape
    ELSE IF Len(shape) > 3 THEN <<1, 3, ModelSize, ModelSize>>
    ELSE <<1>> \o shape

\* lines 420-431: the blank output of the except branch, with the channels of
\* stylized copied in when that works
BlankOutput(t, kept) ==
    [shape |-> <<1, 3, ModelSize, ModelSize>>,
     base   |-> IF kept THEN t.base ELSE "zeros",
     graded |-> IF kept THEN t.graded ELSE <<>>,
     ops    |-> IF kept THEN t.ops ELSE <<>>]

\* postprocess, lines 144-168: squeeze, denormalize or repeat a single channel,
\* clamp, ToPILImage (size is (W, H))
PostprocessImage(t) ==
    LET s1 == Squeeze0(t.shape)
        s2 == IF Len(s1) = 3 /\ s1[1] = 3 THEN s1
              ELSE IF Len(s1) = 2 THEN <<3, s1[1], s1[2]>>
              ELSE IF Len(s1) = 3 /\ s1[1] = 1 THEN <<3, s1[2], s1[3]>>
              ELSE s1
    IN  [size |-> <<s2[3], s2[2]>>, mode |-> "RGB",
         px |-> <<"level0", t.base>> \o t.ops, graded |-> t.graded]

\* postprocess, lines 174-175: the blank image of the except branch
BlankImage ==
    [size |-> <<ModelSize, ModelSize>>, mode |-> "RGB", px |-> <<"zeros">>, graded |-> <<>>]

\* apply_fallback_transform, lines 465-485: every step returns a new image of the
\* same size and mode
FilterChain(im) ==
    [im EXCEPT !.px = im.px \o <<"blur", "color", "contrast", "brightness", "sharpness">>]

\* ------------------------------------------------- values on a small grid
\* A Level 0 run is followed value by value on grids of a few pixels, which
\* stand for the [3, 512, 512] tensors the code works on.  A tensor value x is
\* held as the integer x * One, rounded down after every product, and a mask
\* value as the number of cells counted in its window (out of MaskArea).
One == 10000

MaskKernel == 9     \* avg_pool2d(..., kernel_size=9, stride=1, padding=4)
MaskPad    == 4
BlurKernel == 5     \* conv2d(..., torch.ones(5, 5) / 25.0, padding=2)
BlurPad    == 2
MaskArea   == MaskKernel * MaskKernel
BlurArea   == BlurKernel * BlurKernel

ChannelIds == 0..2
Mean == <<4850, 4560, 4060>>     \* mean=[0.485, 0.456, 0.406]
Std  == <<2290, 2240, 2250>>     \* std=[0.229, 0.224, 0.225]
Tint == <<200, 200, 500>>        \* pastel_tint = [0.02, 0.02, 0.05]

Min2(a, b) == IF a <= b THEN a ELSE b
Max2(a, b) == IF a >= b THEN a ELSE b

\* grids <<H, W>> and their pixels <<i, j>>
GridSizes == {<<1, 1>>, <<2, 3>>, <<3, 3>>, <<4, 4>>}
Pixels(d) == (0..(d[1] - 1)) \X (0..(d[2] - 1))

\* class maps torch.max(output, dim=0) can return: one class everywhere, two
\* classes side by side, one pixel of another class in the middle
Uniform(d, a)     == [p \in Pixels(d) |-> a]
Split(d, a, b, k) == [p \in Pixels(d) |-> IF p[2] < k THEN a ELSE b]
Dot(d, a, b) ==
    [p \in Pixels(d) |-> IF p = <<d[1] \div 2, d[2] \div 2>> THEN b ELSE a]
ClassMaps(d) ==
    {Uniform(d, a) : a \in Classes}
        \cup {Split(d, ab[1], ab[2], k) : ab \in Classes \X Classes, k \in 1..(d[2] - 1)}
        \cup {Dot(d, ab[1], ab[2]) : ab \in Classes \X Classes}

\* images after Resize, as bytes: one colour everywhere (the colour (0.2, 0.2,
\* 0.8) is the bytes (51, 51, 204)), black, white, and a pattern of many values
Colours == {<<51, 51, 204>>, <<0, 0, 0>>, <<255, 255, 255>>}
Flat(d, col) == [c \in ChannelIds |-> [p \in Pixels(d) |-> col[c + 1]]]
Ramp(d) ==
    [c \in ChannelIds |-> [p \in Pixels(d) |-> ((p[1] * d[2] + p[2] + c) * 37) % 256]]
Pictures(d) == {Flat(d, col) : col \in Colours} \cup {Ramp(d)}

\* a grid that holds a whole mask window, two classes side by side
WideSize == <<MaskKernel, MaskKernel>>
WideScene ==
    [dims |-> WideSize, class_map |-> Split(WideSize, 0, 1, MaskPad), img |-> Ramp(WideSize)]

Scenes ==
    UNION {{[dims |-> d, class_map |-> cm, img |-> im] :
                cm \in ClassMaps(d), im \in Pictures(d)} : d \in GridSizes}
        \cup {WideScene}

\* transforms.ToTensor(): byte / 255
ToTensor(k) == (k * One) \div 255

\* transforms.Normalize(mean, std): (x - mean[c]) / std[c]
Normalize(x, c) == ((x - Mean[c + 1]) * One) \div Std[c + 1]

\* input_tensor of the scene and stylized = input_tensor.clone().squeeze(0)
InputTensor(sc) ==
    [c \in ChannelIds |->
        [p \in Pixels(sc.dims) |-> Normalize(ToTensor(sc.img[c][p]), c)]]

\* a buffer that holds the values of the image as ToTensor gives them
RawTensor(sc) ==
    [c \in ChannelIds |-> [p \in Pixels(sc.dims) |-> ToTensor(sc.img[c][p])]]

\* the cells a kernel placed on p covers (stride 1, `pad` cells of padding)
Window(p, kernel, pad) ==
    ((p[1] - pad)..(p[1] - pad + kernel - 1)) \X ((p[2] - pad)..(p[2] - pad + kernel - 1))

\* variant: the padding repeats the nearest pixel of the map
BoxCount_Replicate(cm, d, p, i) ==
    Cardinality({q \in Window(p, MaskKernel, MaskPad) :
        cm[<<Max2(0, Min2(q[1], d[1] - 1)), Max2(0, Min2(q[2], d[2] - 1))>>] = i})

\* (class_map == i).float() summed over the window of p: avg_pool2d pads with
\* zeros and divides by the whole kernel (count_include_pad), so the mask value
\* is BoxCount / MaskArea
BoxCount(cm, d, p, i) ==
    Cardinality({q \in Window(p, MaskKernel, MaskPad) \cap Pixels(d) : cm[q] = i})

SmoothedMask(cm, d, i) == [p \in Pixels(d) |-> BoxCount(cm, d, p, i)]

\* the list masks after the loop of lines 276-294, classes in bad having raised
MaskBank(cm, d, bad) ==
    LET ids == MaskList(0, NumClasses, bad)
    IN  [j \in 1..Len(ids) |-> [cls |-> ids[j], m |-> SmoothedMask(cm, d, ids[j])]]

\* variant: the factor of a mask value of 1, whatever the mask
Scaled_FullMask(x, m, t) == (x * (10 + t)) \div 10

\* x * (1 + mask * t / 10), the mask being m / MaskArea
Scaled(x, m, t) == (x * (10 * MaskArea + t * m)) \div (10 * MaskArea)

\* tensor.clamp(0, 1)
Clamp01(x) == Max2(0, Min2(x, One))

\* lines 314-315: stylized[0] * (1 - sky_mask * 0.3) and
\* torch.min(stylized[2] * (1 + sky_mask * 0.5), 1.0)
SkyEntry(b, m) ==
    [b EXCEPT ![0] = [p \in DOMAIN m |-> Scaled(b[0][p], m[p], 0 - 3)],
              ![2] = [p \in DOMAIN m |-> Min2(Scaled(b[2][p], m[p], 5), One)]]

\* lines 323-325: green and red raised and cut at 1.0
VegEntry(b, m) ==
    [b EXCEPT ![1] = [p \in DOMAIN m |-> Min2(Scaled(b[1][p], m[p], 3), One)],
              ![0] = [p \in DOMAIN m |-> Min2(Scaled(b[0][p], m[p], 1), One)]]

\* line 334: (1 - char_mask) * x + char_mask * ((x - 0.5) * 1.3 + 0.5).clamp(0, 1)
CharValue(x, m) ==
    ((MaskArea - m) * x
        + m * Clamp01(((x - One \div 2) * 13) \div 10 + One \div 2)) \div MaskArea
CharEntry(b, m) ==
    [c \in ChannelIds |-> [p \in DOMAIN m |-> CharValue(b[c][p], m[p])]]

ApplyEntry(g, b, m) ==
    IF g = "sky" THEN SkyEntry(b, m)
    ELSE IF g = "veg" THEN VegEntry(b, m)
    ELSE CharEntry(b, m)

\* the class ids of a group, in the order of its for statement
GroupIds(g) ==
    LET es == SelectSeq(GroupOrder, LAMBDA e : e[1] = g)
    IN  [i \in 1..Len(es) |-> es[i][2]]

\* variant: a class id that has no mask is given the last mask of the list
RECURSIVE ApplyGroup_LastMask(_, _, _, _)
ApplyGroup_LastMask(g, ids, b, ms) ==
    IF ids = <<>> \/ ms = <<>> THEN b
    ELSE ApplyGroup_LastMask(g, Tail(ids),
                             ApplyEntry(g, b, ms[Min2(Head(ids) + 1, Len(ms))].m), ms)

\* one for statement of lines 310-334 over the class ids of a group
RECURSIVE ApplyGroup(_, _, _, _)
ApplyGroup(g, ids, b, ms) ==
    IF ids = <<>> THEN b
    ELSE ApplyGroup(g, Tail(ids),
                    IF Head(ids) < Len(ms)
                    THEN ApplyEntry(g, b, ms[Head(ids) + 1].m)
                    ELSE b,
                    ms)

\* variant: the contrast stretch without the clamp
Contrast_NoClamp(x) == ((x - One \div 2) * 12) \div 10 + One \div 2

\* lines 340-341: (stylized - 0.5) * 1.2 + 0.5, then clamp(0, 1)
Contrast(x) == Clamp01(((x - One \div 2) * 12) \div 10 + One \div 2)

\* line 354: stylized * (1 - 0.15) + pastel_tint * 0.15
Tinted(x, c) == (x * 85) \div 100 + (Tint[c + 1] * 15) \div 100

Interior(d, p) == p[1] \in 1..(d[1] - 2) /\ p[2] \in 1..(d[2] - 2)

Differs(cm, p) ==
    \/ cm[p] # cm[<<p[1] - 1, p[2]>>]
    \/ cm[p] # cm[<<p[1] + 1, p[2]>>]
    \/ cm[p] # cm[<<p[1], p[2] - 1>>]
    \/ cm[p] # cm[<<p[1], p[2] + 1>>]

\* variant: every pixel is compared with the neighbours it has
EdgeMap_AllPixels(cm, d) ==
    [p \in Pixels(d) |->
        IF \E q \in Pixels(d) :
               /\ (IF q[1] >= p[1] THEN q[1] - p[1] ELSE p[1] - q[1])
                    + (IF q[2] >= p[2] THEN q[2] - p[2] ELSE p[2] - q[2]) = 1
               /\ cm[q] # cm[p]
        THEN 1 ELSE 0]

\* lines 363-368: zeros, then 1.0 for i in range(1, H - 1), j in range(1, W - 1)
\* where a neighbour above, below, left or right has another class
EdgeMap(cm, d) ==
    [p \in Pixels(d) |-> IF Interior(d, p) /\ Differs(cm, p) THEN 1 ELSE 0]

RECURSIVE SumOver(_, _)
SumOver(f, S) ==
    IF S = {} THEN 0
    ELSE LET q == CHOOSE x \in S : TRUE IN f[q] + SumOver(f, S \ {q})

\* lines 372-378: conv2d with the 5x5 kernel of 1/25 and zero padding
Blurred(ch, p) == SumOver(ch, Window(p, BlurKernel, BlurPad) \cap DOMAIN ch) \div BlurArea

\* variant: the blur is kept on the edges and the value elsewhere
Composite_Swapped(e, x, bl) == e * bl + (1 - e) * x

\* line 380: edge_strength * stylized[c] + (1 - edge_strength) * blurred
Composite(e, x, bl) == e * x + (1 - e) * bl

DetailBlendOf(b, edge) ==
    [c \in ChannelIds |->
        [p \in DOMAIN edge |-> Composite(edge[p], b[c][p], Blurred(b[c], p))]]

\* numeric faults: NaN and the infinities, which the integers above cannot
\* hold; an entry they were put in is listed with its kind, which nan_to_num
\* changes to "zero" (the entry is 0.0 in buf), "max" or "lowest"
FaultKinds == {"nan", "pinf", "ninf"}
Special(nf, c, p) == {f \in nf : f.c = c /\ f.p = p}

\* line 410, torch.nan_to_num(output, nan=0.0): NaN becomes 0.0 and, by the
\* defaults of the call, the infinities become the largest and the lowest float
NanToNumKind(k) ==
    IF k = "nan" THEN "zero" ELSE IF k = "pinf" THEN "max" ELSE "lowest"

\* postprocess, lines 154-168, for one value: tensor * std + mean, clamp(0, 1),
\* ToPILImage (mul(255).byte()); an infinity or a float at the end of the range
\* stays at its end of the range until the clamp
ByteOf(x, c) == (Clamp01((x * Std[c + 1]) \div One + Mean[c + 1]) * 255) \div One
SpecialByte(k) == IF k \in {"pinf", "max"} THEN 255 ELSE 0

\* ---------------------------------------------------- the /transform endpoint
MaxUploads == 3       \* requests received over a run
IdModulus  == 10000   \* request_id = f"req_{int(request_start_time * 1000) % 10000}"

\* the clock counts milliseconds and is read every half period of the request
\* id, up to two periods
TickSteps == {IdModulus \div 2, IdModulus}
MaxClock  == 2 * IdModulus

\* secure_filename(file.filename) as os.path.splitext splits it
FileNames == {<<"cat", ".png">>, <<"dog", ".jpg">>}

\* int(request_start_time * 1000) % 10000, t being in milliseconds
RequestId(t) == t % IdModulus

\* os.path.join(UPLOAD_FOLDER, f"{base_filename}_{request_id}_{kind}{ext}")
UploadPath(name, id, kind) == <<name[1], "req", id, kind, name[2]>>

NoRequest ==
    [at |-> "idle", no |-> 0, id |-> 0, name |-> <<>>, original |-> <<>>,
     transformed |-> <<>>]

NoScene == [dims |-> <<0, 0>>, class_map |-> <<>>, img |-> <<>>]
NoBuf   == [c \in ChannelIds |-> <<>>]

\* ----------------------------------------------------------- initial state
Unset == 0 - 1

\* no stylization call is running
CallsIdle ==
    /\ served = 0
    /\ pc = [r \in Requests |-> "idle"]
    /\ heap = [r \in Requests |-> EmptyHeap]
    /\ arg0 = [r \in Requests |-> NoImage]
    /\ image = [r \in Requests |-> NoRef]
    /\ input_tensor = [r \in Requests |-> NoTensor]
    /\ output = [r \in Requests |-> NoTensor]
    /\ masks = [r \in Requests |-> <<>>]
    /\ stylized = [r \in Requests |-> NoTensor]
    /\ result = [r \in Requests |-> NoRef]
    /\ level = [r \in Requests |-> Unset]
    /\ failed = [r \in Requests |-> {}]
    /\ trace = [r \in Requests |-> <<>>]

\* no grid run is followed
PixelIdle ==
    /\ scene = NoScene
    /\ phase = "off"
    /\ buf = NoBuf
    /\ before = NoBuf
    /\ mask_list = <<>>
    /\ edge_strength = <<>>
    /\ nonfinite = {}
    /\ pil_image = NoBuf

\* no request has arrived and UPLOAD_FOLDER is empty
EndpointIdle ==
    /\ clock = 0
    /\ arrivals = 0
    /\ uploads = {}
    /\ req = [r \in Requests |-> NoRequest]

\* After construction of style_transfer (lines 52-55, 503): load_model either
\* loaded the classifier or left self.model = None; the device is cuda when
\* torch.cuda.is_available() and cpu otherwise.  No call is running.
Init ==
    /\ model \in {"loaded", "None"}
    /\ device \in {"cuda", "cpu"}
    /\ CallsIdle
    /\ PixelIdle
    /\ EndpointIdle

\* ------------------------------------------------------- exception handlers

\* variant: the outer handler runs the pipeline again instead of falling back
TransformExcept_Retry(r, stages, ev) ==
    /\ pc' = [pc EXCEPT ![r] = "convert"]
    /\ failed' = [failed EXCEPT ![r] = @ \cup stages]
    /\ trace' = [trace EXCEPT ![r] = @ \o ev \o <<"level0">>]

\* transform, lines 446-449: the outer handler logs and calls
\* apply_fallback_transform(image); ev are the events of the raising step
TransformExcept(r, stages, ev) ==
    /\ pc' = [pc EXCEPT ![r] = "fb_copy"]
    /\ failed' = [failed EXCEPT ![r] = @ \cup stages]
    /\ trace' = [trace EXCEPT ![r] = @ \o ev \o <<"level2">>]

\* variant: the handler re-raises without releasing anything
InferenceExcept_NoCleanup(oom) == IF oom THEN <<"reraise">> ELSE <<>>

\* transform, lines 230-240: the handler of RuntimeError around the classifier
\* call; only a "CUDA out of memory" message is cleaned up after (on a cuda
\* device) and re-raised
InferenceExcept(oom) ==
    IF oom
    THEN (IF device = "cuda" THEN <<"empty_cache", "gc_collect">> ELSE <<>>)
         \o <<"reraise">>
    ELSE <<>>

\* variant: the handler lets the exception go on to the caller
ReturnImage_Raise(r, stages) ==
    /\ pc' = [pc EXCEPT ![r] = "raised"]
    /\ failed' = [failed EXCEPT ![r] = @ \cup stages]
    /\ UNCHANGED <<result, level, trace>>

\* lines 440-445 of transform and 490-500 of apply_fallback_transform: log and
\* return the image the function was working from
ReturnImage(r, stages) ==
    /\ pc' = [pc EXCEPT ![r] = "done"]
    /\ result' = [result EXCEPT ![r] = image[r]]
    /\ level' = [level EXCEPT ![r] = 3]
    /\ failed' = [failed EXCEPT ![r] = @ \cup stages]
    /\ trace' = [trace EXCEPT ![r] = Append(@, "level3")]

\* ------------------------------------------------------- steps on the heap
\* variant: the conversion changes the image it is given
ConvertStep_InPlace(h, ref) ==
    [heap |-> [h EXCEPT ![ref] = ConvertRGB(h[ref])], ref |-> ref]

\* image = image.convert('RGB'), line 198
ConvertStep(h, ref) ==
    [heap |-> [h EXCEPT !["rgb"] = ConvertRGB(h[ref])], ref |-> "rgb"]

\* result = image.copy(), line 459
CopyStep(h, ref) ==
    [heap |-> [h EXCEPT !["copy"] = ImageCopy(h[ref])], ref |-> "copy"]

\* result = result.filter(...) ... enhancer.enhance(...), lines 465-485
FilterStep(h, ref) ==
    [heap |-> [h EXCEPT !["out"] = FilterChain(h[ref])], ref |-> "out"]

\* ------------------------------------------------------------------ actions
tensors == <<input_tensor, output, masks, stylized>>

\* ghibli_transform(image) -> style_transfer.transform(image), lines 506-508 and
\* 177-186: without a classifier the call goes straight to
\* apply_fallback_transform
Call(r, img) ==
    /\ pc[r] = "idle"
    /\ served < MaxCalls
    /\ served' = served + 1
    /\ heap' = [heap EXCEPT ![r] = [EmptyHeap EXCEPT !["arg"] = img]]
    /\ arg0' = [arg0 EXCEPT ![r] = img]
    /\ image' = [image EXCEPT ![r] = "arg"]
    /\ failed' = [failed EXCEPT ![r] = {}]
    /\ IF model = "None"
       THEN /\ pc' = [pc EXCEPT ![r] = "fb_copy"]
            /\ trace' = [trace EXCEPT ![r] = <<"level2">>]
       ELSE /\ pc' = [pc EXCEPT ![r] = "convert"]
            /\ trace' = [trace EXCEPT ![r] = <<"level0">>]
    /\ UNCHANGED <<pixel, endpoint, model, device, tensors, result, level>>

\* lines 195-198: convert to RGB if needed
Convert(r, f) ==
    /\ pc[r] = "convert"
    /\ IF heap[r][image[r]].mode # "RGB"
       THEN \/ /\ f = "ok"
               /\ LET c == ConvertStep(heap[r], image[r])
                  IN  /\ heap' = [heap EXCEPT ![r] = c.heap]
                      /\ image' = [image EXCEPT ![r] = c.ref]
               /\ pc' = [pc EXCEPT ![r] = "preprocess"]
               /\ UNCHANGED <<failed, trace>>
            \/ /\ f = "fail"
               /\ TransformExcept(r, {"convert"}, <<>>)
               /\ UNCHANGED <<heap, image>>
       ELSE /\ f = "ok"
            /\ pc' = [pc EXCEPT ![r] = "preprocess"]
            /\ UNCHANGED <<heap, image, failed, trace>>
    /\ UNCHANGED <<pixel, endpoint, model, device, served, arg0, tensors, result, level>>

\* lines 200-207: input_tensor = self.preprocess(image); preprocess recovers from
\* its own failure with a blank tensor (lines 126-137); if that raises too, or the
\* NaN check of line 207 raises, the outer handler runs
Preprocess(r, f) ==
    /\ pc[r] = "preprocess"
    /\ \/ /\ f = "ok"
          /\ input_tensor' = [input_tensor EXCEPT ![r] =
                 [shape |-> PreprocessShape(heap[r][image[r]]), base |-> "image",
                  graded |-> <<>>, ops |-> <<>>]]
          /\ pc' = [pc EXCEPT ![r] = "inference"]
          /\ UNCHANGED <<failed, trace>>
       \/ /\ f = "recovered"
          /\ input_tensor' = [input_tensor EXCEPT ![r] = BlankInput]
          /\ pc' = [pc EXCEPT ![r] = "inference"]
          /\ failed' = [failed EXCEPT ![r] = @ \cup {"preprocess"}]
          /\ UNCHANGED trace
       \/ /\ f = "abort"
          /\ TransformExcept(r, {"preprocess", "preprocess_recovery"}, <<>>)
          /\ UNCHANGED input_tensor
    /\ UNCHANGED <<pixel, endpoint, model, device, served, heap, arg0, image, output, masks,
                   stylized, result, level>>

\* line 220: the call enters self.model(input_tensor); nothing guards the entry
InvokeModel(r) ==
    /\ pc[r] = "inference"
    /\ pc' = [pc EXCEPT ![r] = "in_model"]
    /\ trace' = [trace EXCEPT ![r] = Append(@, "model")]
    /\ UNCHANGED <<pixel, endpoint, model, device, served, heap, arg0, image, tensors, result,
                   level, failed>>

\* variant: after a CUDA out-of-memory error the handler also drops the classifier
ModelReturn_DropModel(r, f) ==
    /\ pc[r] = "in_model"
    /\ f \in {"oom", "check_oom"} => device = "cuda"
    /\ LET bound == f \in {"ok", "check_oom", "check_runtime"}
           stage == (IF f \in {"check_oom", "check_runtime"} THEN {"output_check"}
                     ELSE IF f = "ok" THEN {} ELSE {"inference"})
                    \cup (IF f \in {"oom", "check_oom"} THEN {"oom"} ELSE {})
           ev    == InferenceExcept(f \in {"oom", "check_oom"})
       IN  /\ output' = [output EXCEPT ![r] =
                  IF bound THEN ClassifierOutput(input_tensor[r]) ELSE @]
           /\ IF f = "other" \/ (ev # <<>> /\ ev[Len(ev)] = "reraise")
              THEN TransformExcept(r, stage, ev)
              ELSE /\ pc' = [pc EXCEPT ![r] = "classmap"]
                   /\ failed' = [failed EXCEPT ![r] = @ \cup stage]
                   /\ trace' = [trace EXCEPT ![r] = @ \o ev]
           /\ model' = IF f \in {"oom", "check_oom"} THEN "None" ELSE model
    /\ UNCHANGED <<pixel, endpoint, device, served, heap, arg0, image, input_tensor, masks,
                   stylized, result, level>>

\* lines 220-240: the classifier returns or raises.
\*   ok            output bound
\*   oom           RuntimeError "CUDA out of memory" from the classifier (cuda only)
\*   runtime       any other RuntimeError from the classifier: logged, not re-raised
\*   other         an exception that is no RuntimeError (also from ["out"][0])
\*   check_oom, check_runtime
\*                 the classifier returned and output is bound, then the NaN check
\*                 of line 228 raised a RuntimeError
ModelReturn(r, f) ==
    /\ pc[r] = "in_model"
    /\ f \in {"oom", "check_oom"} => device = "cuda"
    /\ LET bound == f \in {"ok", "check_oom", "check_runtime"}
           stage == (IF f \in {"check_oom", "check_runtime"} THEN {"output_check"}
                     ELSE IF f = "ok" THEN {} ELSE {"inference"})
                    \cup (IF f \in {"oom", "check_oom"} THEN {"oom"} ELSE {})
           ev    == InferenceExcept(f \in {"oom", "check_oom"})
       IN  /\ output' = [output EXCEPT ![r] =
                  IF bound THEN ClassifierOutput(input_tensor[r]) ELSE @]
           /\ IF f = "other" \/ (ev # <<>> /\ ev[Len(ev)] = "reraise")
              THEN TransformExcept(r, stage, ev)
              ELSE /\ pc' = [pc EXCEPT ![r] = "classmap"]
                   /\ failed' = [failed EXCEPT ![r] = @ \cup stage]
                   /\ trace' = [trace EXCEPT ![r] = @ \o ev]
    /\ UNCHANGED <<pixel, endpoint, model, device, served, heap, arg0, image, input_tensor, masks,
                   stylized, result, level>>

\* variant: the class-map step does not need the classifier output
ClassMap_IgnoresUnbound(r, f) ==
    /\ pc[r] = "classmap"
    /\ IF f = "fail"
       THEN TransformExcept(r, {"classmap"}, <<>>)
       ELSE /\ pc' = [pc EXCEPT ![r] = "masks"]
            /\ UNCHANGED <<failed, trace>>
    /\ UNCHANGED <<pixel, endpoint, model, device, served, heap, arg0, image, tensors, result, level>>

\* lines 252-258: class_map = argmax of output; with output unbound the name
\* lookup raises, and the handler re-raises
ClassMap(r, f) ==
    /\ pc[r] = "classmap"
    /\ output[r].base = "unbound" => f = "fail"
    /\ IF f = "fail"
       THEN TransformExcept(r, {"classmap"}, <<>>)
       ELSE /\ pc' = [pc EXCEPT ![r] = "masks"]
            /\ UNCHANGED <<failed, trace>>
    /\ UNCHANGED <<pixel, endpoint, model, device, served, heap, arg0, image, tensors, result, level>>

\* lines 260-304: stylized = clone of the input; one mask per class, the classes
\* in bad raising inside the loop (logged, skipped); f = "fail" is a failure
\* outside the loop, which is re-raised
Masks(r, f, bad) ==
    /\ pc[r] = "masks"
    /\ IF f = "fail"
       THEN /\ bad = {}
            /\ TransformExcept(r, {"mask_stage"}, <<>>)
            /\ UNCHANGED <<stylized, masks>>
       ELSE /\ stylized' = [stylized EXCEPT ![r] =
                   [input_tensor[r] EXCEPT !.shape = Squeeze0(@)]]
            /\ masks' = [masks EXCEPT ![r] = MaskList(0, output[r].shape[1], bad)]
            /\ failed' = [failed EXCEPT ![r] =
                   @ \cup (IF bad = {} THEN {} ELSE {"mask_class"})]
            /\ pc' = [pc EXCEPT ![r] = "grading"]
            /\ UNCHANGED trace
    /\ UNCHANGED <<pixel, endpoint, model, device, served, heap, arg0, image, input_tensor, output,
                   result, level>>

\* variant: a failure of the region stages is logged and the pipeline goes on
Grading_Swallow(r, f) ==
    /\ pc[r] = "grading"
    /\ pc' = [pc EXCEPT ![r] = "global"]
    /\ IF f = "fail"
       THEN /\ failed' = [failed EXCEPT ![r] = @ \cup {"grading"}]
            /\ UNCHANGED stylized
       ELSE /\ stylized' = [stylized EXCEPT ![r].graded = GradingOps(masks[r])]
            /\ UNCHANGED failed
    /\ UNCHANGED <<pixel, endpoint, model, device, served, heap, arg0, image, input_tensor, output,
                   masks, result, level, trace>>

\* lines 306-334: the region stages; nothing catches inside them
Grading(r, f) ==
    /\ pc[r] = "grading"
    /\ IF f = "fail"
       THEN /\ TransformExcept(r, {"grading"}, <<>>)
            /\ UNCHANGED stylized
       ELSE /\ stylized' = [stylized EXCEPT ![r].graded = GradingOps(masks[r])]
            /\ pc' = [pc EXCEPT ![r] = "global"]
            /\ UNCHANGED <<failed, trace>>
    /\ UNCHANGED <<pixel, endpoint, model, device, served, heap, arg0, image, input_tensor, output,
                   masks, result, level>>

\* lines 338-359: contrast and clamp (uncaught), then the pastel tint, whose own
\* handler logs and continues without the tint
GlobalGrade(r, f) ==
    /\ pc[r] = "global"
    /\ \/ /\ f = "ok"
          /\ stylized' = [stylized EXCEPT ![r].ops = @ \o <<"contrast", "tint">>]
          /\ pc' = [pc EXCEPT ![r] = "edge"]
          /\ UNCHANGED <<failed, trace>>
       \/ /\ f = "tint_fail"
          /\ stylized' = [stylized EXCEPT ![r].ops = @ \o <<"contrast">>]
          /\ pc' = [pc EXCEPT ![r] = "edge"]
          /\ failed' = [failed EXCEPT ![r] = @ \cup {"tint"}]
          /\ UNCHANGED trace
       \/ /\ f = "contrast_fail"
          /\ TransformExcept(r, {"contrast"}, <<>>)
          /\ UNCHANGED stylized
    /\ UNCHANGED <<pixel, endpoint, model, device, served, heap, arg0, image, input_tensor, output,
                   masks, result, level>>

\* lines 361-380: edge map and blur composite; nothing catches inside them
EdgeBlend(r, f) ==
    /\ pc[r] = "edge"
    /\ IF f = "fail"
       THEN /\ TransformExcept(r, {"edge"}, <<>>)
            /\ UNCHANGED stylized
       ELSE /\ stylized' = [stylized EXCEPT ![r].ops = Append(@, "edge_blend")]
            /\ pc' = [pc EXCEPT ![r] = "shape"]
            /\ UNCHANGED <<failed, trace>>
    /\ UNCHANGED <<pixel, endpoint, model, device, served, heap, arg0, image, input_tensor, output,
                   masks, result, level>>

\* lines 382-431: output = stylized with a batch dimension; the handler builds a
\* blank output instead (keeping the channels of stylized when that works); if
\* building the blank raises, the outer handler runs
ShapePrep(r, f) ==
    /\ pc[r] = "shape"
    /\ \/ /\ f = "ok"
          /\ output' = [output EXCEPT ![r] =
                 [stylized[r] EXCEPT !.shape = PrepareOutput(@)]]
          /\ pc' = [pc EXCEPT ![r] = "postprocess"]
          /\ UNCHANGED <<failed, trace>>
       \/ /\ f \in {"recovered_kept", "recovered_blank"}
          /\ output' = [output EXCEPT ![r] =
                 BlankOutput(stylized[r], f = "recovered_kept")]
          /\ pc' = [pc EXCEPT ![r] = "postprocess"]
          /\ failed' = [failed EXCEPT ![r] = @ \cup
                 (IF f = "recovered_kept" THEN {"shape"} ELSE {"shape", "shape_copy"})]
          /\ UNCHANGED trace
       \/ /\ f = "abort"
          /\ TransformExcept(r, {"shape", "shape_recovery"}, <<>>)
          /\ UNCHANGED output
    /\ UNCHANGED <<pixel, endpoint, model, device, served, heap, arg0, image, input_tensor, masks,
                   stylized, result, level>>

\* lines 433-445: result = self.postprocess(output); postprocess recovers from its
\* own failure with a blank 512x512 image (lines 169-175); if that raises too, the
\* handler of line 440 returns image
Postprocess(r, f) ==
    /\ pc[r] = "postprocess"
    /\ \/ /\ f \in {"ok", "recovered"}
          /\ heap' = [heap EXCEPT ![r]["pil"] =
                 IF f = "ok" THEN PostprocessImage(output[r]) ELSE BlankImage]
          /\ result' = [result EXCEPT ![r] = "pil"]
          /\ level' = [level EXCEPT ![r] = 0]
          /\ pc' = [pc EXCEPT ![r] = "done"]
          /\ failed' = [failed EXCEPT ![r] =
                 @ \cup (IF f = "ok" THEN {} ELSE {"postprocess"})]
          /\ UNCHANGED trace
       \/ /\ f = "raise"
          /\ ReturnImage(r, {"postprocess", "postprocess_recovery"})
          /\ UNCHANGED heap
    /\ UNCHANGED <<pixel, endpoint, model, device, served, arg0, image, tensors>>

\* apply_fallback_transform, lines 453-459 and 496-500: import and copy; a failure
\* here is caught by the outer handler, which returns image
FallbackCopy(r, f) ==
    /\ pc[r] = "fb_copy"
    /\ IF f = "fail"
       THEN /\ ReturnImage(r, {"fallback_copy"})
            /\ UNCHANGED heap
       ELSE /\ LET c == CopyStep(heap[r], image[r])
               IN  /\ heap' = [heap EXCEPT ![r] = c.heap]
                   /\ result' = [result EXCEPT ![r] = c.ref]
            /\ pc' = [pc EXCEPT ![r] = "fb_filters"]
            /\ UNCHANGED <<level, failed, trace>>
    /\ UNCHANGED <<pixel, endpoint, model, device, served, arg0, image, tensors>>

\* variant: the filter chain succeeds but `image` is returned instead of `result`
FallbackFilters_ReturnsImage(r, f) ==
    /\ pc[r] = "fb_filters"
    /\ IF f = "fail"
       THEN /\ ReturnImage(r, {"fallback_filter"})
            /\ UNCHANGED heap
       ELSE /\ heap' = [heap EXCEPT ![r] = FilterStep(heap[r], result[r]).heap]
            /\ ReturnImage(r, {})
    /\ UNCHANGED <<pixel, endpoint, model, device, served, arg0, image, tensors>>

\* apply_fallback_transform, lines 461-494: the PIL filter chain; a failure of
\* any filter is caught by the inner handler, which returns image
FallbackFilters(r, f) ==
    /\ pc[r] = "fb_filters"
    /\ IF f = "fail"
       THEN /\ ReturnImage(r, {"fallback_filter"})
            /\ UNCHANGED heap
       ELSE /\ LET c == FilterStep(heap[r], result[r])
               IN  /\ heap' = [heap EXCEPT ![r] = c.heap]
                   /\ result' = [result EXCEPT ![r] = c.ref]
            /\ level' = [level EXCEPT ![r] = 2]
            /\ pc' = [pc EXCEPT ![r] = "done"]
            /\ UNCHANGED <<failed, trace>>
    /\ UNCHANGED <<pixel, endpoint, model, device, served, arg0, image, tensors>>

\* the call has returned to transform_image (line 651); the locals of the call
\* are gone
Return(r) ==
    /\ pc[r] = "done"
    /\ pc' = [pc EXCEPT ![r] = "idle"]
    /\ heap' = [heap EXCEPT ![r] = EmptyHeap]
    /\ arg0' = [arg0 EXCEPT ![r] = NoImage]
    /\ image' = [image EXCEPT ![r] = NoRef]
    /\ input_tensor' = [input_tensor EXCEPT ![r] = NoTensor]
    /\ output' = [output EXCEPT ![r] = NoTensor]
    /\ masks' = [masks EXCEPT ![r] = <<>>]
    /\ stylized' = [stylized EXCEPT ![r] = NoTensor]
    /\ result' = [result EXCEPT ![r] = NoRef]
    /\ level' = [level EXCEPT ![r] = Unset]
    /\ failed' = [failed EXCEPT ![r] = {}]
    /\ trace' = [trace EXCEPT ![r] = <<>>]
    /\ UNCHANGED <<pixel, endpoint, model, device, served>>

\* ------------------------------------------------------ the run on a grid
\* classes whose mask raises in a run of the mask loop
BadSets == {{}, {0}, {NumClasses - 1}}

\* where a numeric fault is placed
FaultPixels == {<<0, 0>>}

\* lines 203 and 262: stylized = input_tensor.clone().squeeze(0), input_tensor
\* being the normalized image
CloneInput ==
    /\ phase = "input"
    /\ phase' = "clone"
    /\ buf' = InputTensor(scene)
    /\ before' = buf
    /\ UNCHANGED <<calls, endpoint, scene, mask_list, edge_strength, nonfinite, pil_image>>

\* lines 273-296: the mask loop
BuildMasks(bad) ==
    /\ phase = "clone"
    /\ phase' = "masks"
    /\ mask_list' = MaskBank(scene.class_map, scene.dims, bad)
    /\ UNCHANGED <<calls, endpoint, scene, buf, before, edge_strength, nonfinite, pil_image>>

\* lines 310-315
SkyStage ==
    /\ phase = "masks"
    /\ phase' = "sky"
    /\ buf' = ApplyGroup("sky", GroupIds("sky"), buf, mask_list)
    /\ before' = buf
    /\ UNCHANGED <<calls, endpoint, scene, mask_list, edge_strength, nonfinite, pil_image>>

\* lines 319-325
VegetationStage ==
    /\ phase = "sky"
    /\ phase' = "veg"
    /\ buf' = ApplyGroup("veg", GroupIds("veg"), buf, mask_list)
    /\ before' = buf
    /\ UNCHANGED <<calls, endpoint, scene, mask_list, edge_strength, nonfinite, pil_image>>

\* lines 329-334
ForegroundStage ==
    /\ phase = "veg"
    /\ phase' = "char"
    /\ buf' = ApplyGroup("char", GroupIds("char"), buf, mask_list)
    /\ before' = buf
    /\ UNCHANGED <<calls, endpoint, scene, mask_list, edge_strength, nonfinite, pil_image>>

\* lines 340-341
ContrastClamp ==
    /\ phase = "char"
    /\ phase' = "contrast"
    /\ buf' = [c \in ChannelIds |-> [p \in Pixels(scene.dims) |-> Contrast(buf[c][p])]]
    /\ before' = buf
    /\ UNCHANGED <<calls, endpoint, scene, mask_list, edge_strength, nonfinite, pil_image>>

\* lines 345-359: the tint, or no tint when the try block raised
PastelTint(f) ==
    /\ phase = "contrast"
    /\ phase' = "tint"
    /\ buf' = IF f = "ok"
              THEN [c \in ChannelIds |->
                       [p \in Pixels(scene.dims) |-> Tinted(buf[c][p], c)]]
              ELSE buf
    /\ before' = buf
    /\ UNCHANGED <<calls, endpoint, scene, mask_list, edge_strength, nonfinite, pil_image>>

\* lines 363-368
EdgeMapStage ==
    /\ phase = "tint"
    /\ phase' = "edges"
    /\ edge_strength' = EdgeMap(scene.class_map, scene.dims)
    /\ UNCHANGED <<calls, endpoint, scene, buf, before, mask_list, nonfinite, pil_image>>

\* lines 371-380
DetailBlend ==
    /\ phase = "edges"
    /\ phase' = "blend"
    /\ buf' = DetailBlendOf(buf, edge_strength)
    /\ before' = buf
    /\ UNCHANGED <<calls, endpoint, scene, mask_list, edge_strength, nonfinite, pil_image>>

\* a numeric fault: one entry of the buffer the output is prepared from holds a
\* NaN or an infinity
NumericFault(c, p, k) ==
    /\ phase = "blend"
    /\ nonfinite = {}
    /\ nonfinite' = {[c |-> c, p |-> p, kind |-> k]}
    /\ UNCHANGED <<calls, endpoint, scene, phase, buf, before, mask_list, edge_strength,
                   pil_image>>

\* lines 406-411: only when some entry is NaN, output = nan_to_num(output, nan=0.0)
NanToNum ==
    /\ phase = "blend"
    /\ phase' = "final"
    /\ IF \E f \in nonfinite : f.kind = "nan"
       THEN /\ buf' = [c \in ChannelIds |-> [p \in Pixels(scene.dims) |->
                          IF \E f \in Special(nonfinite, c, p) : f.kind = "nan"
                          THEN 0 ELSE buf[c][p]]]
            /\ nonfinite' = {[f EXCEPT !.kind = NanToNumKind(@)] : f \in nonfinite}
       ELSE UNCHANGED <<buf, nonfinite>>
    /\ UNCHANGED <<calls, endpoint, scene, before, mask_list, edge_strength, pil_image>>

\* line 436 and postprocess, lines 144-168
ToImage ==
    /\ phase = "final"
    /\ phase' = "image"
    /\ pil_image' =
           [c \in ChannelIds |-> [p \in Pixels(scene.dims) |->
               IF \A f \in Special(nonfinite, c, p) : f.kind = "zero"
               THEN ByteOf(buf[c][p], c)
               ELSE SpecialByte((CHOOSE f \in Special(nonfinite, c, p) : TRUE).kind)]]
    /\ UNCHANGED <<calls, endpoint, scene, buf, before, mask_list, edge_strength, nonfinite>>

\* ------------------------------------------------------ /transform requests
\* time passes
Tick(d) ==
    /\ clock + d <= MaxClock
    /\ clock' = clock + d
    /\ UNCHANGED <<calls, pixel, arrivals, uploads, req>>

\* lines 526-540: a request with the file `name` reaches thread r and takes its
\* request id from the clock
Arrive(r, name) ==
    /\ req[r].at = "idle"
    /\ arrivals < MaxUploads
    /\ arrivals' = arrivals + 1
    /\ req' = [req EXCEPT ![r] =
                  [NoRequest EXCEPT !.at = "arrived", !.no = arrivals + 1,
                                    !.id = RequestId(clock), !.name = name]]
    /\ UNCHANGED <<calls, pixel, clock, uploads>>

\* lines 570-578 and 717-719: no file part, no file name or a file type that is
\* not allowed: 400, nothing is written
Reject(r) ==
    /\ req[r].at = "arrived"
    /\ req' = [req EXCEPT ![r] = NoRequest]
    /\ UNCHANGED <<calls, pixel, clock, arrivals, uploads>>

\* lines 580-587: file.save(original_path)
SaveOriginal(r) ==
    /\ req[r].at = "arrived"
    /\ LET path == UploadPath(req[r].name, req[r].id, "original")
       IN  /\ req' = [req EXCEPT ![r].at = "saved", ![r].original = path]
           /\ uploads' = uploads \cup {[path |-> path, no |-> req[r].no]}
    /\ UNCHANGED <<calls, pixel, clock, arrivals>>

\* lines 633-636 and 703-716: the image cannot be opened or the transformation
\* part raises: 500, the transformed image is not written
FailAfterSave(r) ==
    /\ req[r].at = "saved"
    /\ req' = [req EXCEPT ![r] = NoRequest]
    /\ UNCHANGED <<calls, pixel, clock, arrivals, uploads>>

\* lines 654-690: after ghibli_transform(image) returned,
\* transformed_image.save(transformed_path)
SaveTransformed(r) ==
    /\ req[r].at = "saved"
    /\ LET path == UploadPath(req[r].name, req[r].id, "transformed")
       IN  /\ req' = [req EXCEPT ![r].at = "transformed", ![r].transformed = path]
           /\ uploads' = uploads \cup {[path |-> path, no |-> req[r].no]}
    /\ UNCHANGED <<calls, pixel, clock, arrivals>>

\* lines 697-702: the response names both paths
Respond(r) ==
    /\ req[r].at = "transformed"
    /\ req' = [req EXCEPT ![r] = NoRequest]
    /\ UNCHANGED <<calls, pixel, clock, arrivals, uploads>>

\* ----------------------------------------------------------- specifications
Quiet(r) == \A q \in Requests \ {r} : pc[q] = "idle"

\* a step of a running call, with every outcome the step can have
Step(r) ==
        \/ \E f \in {"ok", "fail"} : Convert(r, f)
        \/ \E f \in {"ok", "recovered", "abort"} : Preprocess(r, f)
        \/ InvokeModel(r)
        \/ \E f \in {"ok", "oom", "runtime", "other", "check_oom", "check_runtime"} :
               ModelReturn(r, f)
        \/ \E f \in {"ok", "fail"} : ClassMap(r, f)
        \/ \E f \in {"ok", "fail"}, bad \in SUBSET Classes : Masks(r, f, bad)
        \/ \E f \in {"ok", "fail"} : Grading(r, f)
        \/ \E f \in {"ok", "tint_fail", "contrast_fail"} : GlobalGrade(r, f)
        \/ \E f \in {"ok", "fail"} : EdgeBlend(r, f)
        \/ \E f \in {"ok", "recovered_kept", "recovered_blank", "abort"} : ShapePrep(r, f)
        \/ \E f \in {"ok", "recovered", "raise"} : Postprocess(r, f)
        \/ \E f \in {"ok", "fail"} : FallbackCopy(r, f)
        \/ \E f \in {"ok", "fail"} : FallbackFilters(r, f)

\* Stylization calls one at a time, under every pattern of stage failures.
Next ==
    \E r \in Requests :
        \/ Quiet(r) /\ \E img \in Images : Call(r, img)
        \/ Step(r)
        \/ Return(r)

Spec == Init /\ [][Next]_vars

\* Request threads running their calls concurrently (the server of line 729 is
\* threaded); the only failures are those of the classifier call.
NextConc ==
    \E r \in Requests :
        \/ \E img \in ConcImages : Call(r, img)
        \/ Convert(r, "ok")
        \/ Preprocess(r, "ok")
        \/ InvokeModel(r)
        \/ \E f \in {"ok", "oom", "runtime", "other"} : ModelReturn(r, f)
        \/ \E f \in {"ok", "fail"} : ClassMap(r, f)
        \/ Masks(r, "ok", {})
        \/ Grading(r, "ok")
        \/ GlobalGrade(r, "ok")
        \/ EdgeBlend(r, "ok")
        \/ ShapePrep(r, "ok")
        \/ Postprocess(r, "ok")
        \/ FallbackCopy(r, "ok")
        \/ FallbackFilters(r, "ok")
        \/ Return(r)

SpecConc == Init /\ [][NextConc]_vars

\* One Level 0 run on every scene, with masks that raise, a tint that raises
\* and a numeric fault in the buffer the output is prepared from.
InitPix ==
    /\ model = "loaded"
    /\ device = "cpu"
    /\ CallsIdle
    /\ scene \in Scenes
    /\ phase = "input"
    /\ buf = NoBuf
    /\ before = NoBuf
    /\ mask_list = <<>>
    /\ edge_strength = <<>>
    /\ nonfinite = {}
    /\ pil_image = NoBuf
    /\ EndpointIdle

NextPix ==
    \/ CloneInput
    \/ \E bad \in BadSets : BuildMasks(bad)
    \/ SkyStage
    \/ VegetationStage
    \/ ForegroundStage
    \/ ContrastClamp
    \/ \E f \in {"ok", "fail"} : PastelTint(f)
    \/ EdgeMapStage
    \/ DetailBlend
    \/ \E c \in ChannelIds, p \in FaultPixels, k \in FaultKinds : NumericFault(c, p, k)
    \/ NanToNum
    \/ ToImage

SpecPix == InitPix /\ [][NextPix]_vars

\* The mask loop and the three region stages as a function of the buffer they
\* are given, on buffers of values in [0, 1].
InitGrade ==
    /\ model = "loaded"
    /\ device = "cpu"
    /\ CallsIdle
    /\ scene \in Scenes
    /\ phase = "clone"
    /\ buf = RawTensor(scene)
    /\ before = NoBuf
    /\ mask_list = <<>>
    /\ edge_strength = <<>>
    /\ nonfinite = {}
    /\ pil_image = NoBuf
    /\ EndpointIdle

NextGrade ==
    \/ \E bad \in BadSets : BuildMasks(bad)
    \/ SkyStage
    \/ VegetationStage
    \/ ForegroundStage

SpecGrade == InitGrade /\ [][NextGrade]_vars

\* Requests served by the threads of the server, some at the same reading of the
\* clock and some a period of the request id apart.
InitReq ==
    /\ model = "loaded"
    /\ device = "cpu"
    /\ CallsIdle
    /\ PixelIdle
    /\ clock \in {0, 1}
    /\ arrivals = 0
    /\ uploads = {}
    /\ req = [r \in Requests |-> NoRequest]

NextReq ==
    \/ \E d \in TickSteps : Tick(d)
    \/ \E r \in Requests :
           \/ \E name \in FileNames : Arrive(r, name)
           \/ Reject(r)
           \/ SaveOriginal(r)
           \/ FailAfterSave(r)
           \/ SaveTransformed(r)
           \/ Respond(r)

SpecReq == InitReq /\ [][NextReq]_vars

\* ------------------------------------------------- observations of one call
LevelEvents == {"level0", "level2", "level3"}
LevelNo(e) == IF e = "level0" THEN 0 ELSE IF e = "level2" THEN 2 ELSE 3

\* the levels the call of r has entered, in order
Entered(r) ==
    LET lv == SelectSeq(trace[r], LAMBDA e : e \in LevelEvents)
    IN  [i \in 1..Len(lv) |-> LevelNo(lv[i])]

\* how often the call of r has invoked the classifier
ModelCalls(r) == Len(SelectSeq(trace[r], LAMBDA e : e = "model"))

Level0Pcs == {"convert", "preprocess", "inference", "in_model", "classmap", "masks",
              "grading", "global", "edge", "shape", "postprocess"}
Level2Pcs == {"fb_copy", "fb_filters"}
Running(r) == pc[r] \in Level0Pcs \cup Level2Pcs

\* the level whose code the call of r is running, or has returned from
CurrentLevel(r) ==
    IF pc[r] \in Level0Pcs THEN 0
    ELSE IF pc[r] \in Level2Pcs THEN 2
    ELSE level[r]

\* failures after which transform's outer handler runs ("oom": a RuntimeError
\* "CUDA out of memory" inside the inference block, which is re-raised)
AbortingStages == {"convert", "inference", "oom", "classmap", "mask_stage", "grading",
                   "contrast", "edge", "preprocess_recovery", "shape_recovery"}
\* failures the stage itself recovers from
RecoveredStages == {"preprocess", "output_check", "mask_class", "tint", "shape",
                    "shape_copy", "postprocess"}
Level2Stages == {"fallback_copy", "fallback_filter"}

Abandoned(r)    == failed[r] \cap AbortingStages # {}
Level2Failed(r) == failed[r] \cap Level2Stages # {}
PostRaised(r)   == "postprocess_recovery" \in failed[r]

\* the image the local name `image` stands for when a level returns it or hands
\* it on: the argument, or its RGB conversion
WorkingImage(r) ==
    IF model = "loaded" /\ arg0[r].mode # "RGB" /\ "convert" \notin failed[r]
    THEN ConvertRGB(arg0[r])
    ELSE arg0[r]

Returned(r) == heap[r][result[r]]

\* ------------------------------------------------------------------ claims

\* C1: within one stylization call the levels entered form a strictly increasing
\* sequence, for every pattern of stage failures: no level is entered twice, and
\* the code that runs always belongs to the last level entered, so nothing of a
\* failed level or of a lower-numbered one runs again.
C1_MonotoneDescent ==
    \A r \in Requests :
        LET lv == Entered(r)
        IN  /\ \A i \in 1..(Len(lv) - 1) : lv[i] < lv[i + 1]
            /\ pc[r] # "idle" => Len(lv) > 0 /\ CurrentLevel(r) = lv[Len(lv)]

C1_Witness ==
    \E r \in Requests : pc[r] = "done" /\ Entered(r) = <<0, 2, 3>>

\* C2 as stated: once any of the listed Level 0 stages has failed, the call runs
\* no further Level 0 stage and returns no Level 0 result.
C2_ListedStages == {"preprocess", "inference", "mask_class", "grading", "tint",
                    "edge", "shape", "postprocess"}
C2_AnyFailureAbandons ==
    \A r \in Requests :
        failed[r] \cap C2_ListedStages # {} =>
            /\ pc[r] \notin Level0Pcs
            /\ ~(pc[r] = "done" /\ level[r] = 0)

\* C2 amended: after a failure of the RGB conversion, the classifier call, the
\* class map, the mask stage as a whole, the colour grading, the contrast stretch
\* or the edge blend (or of the recovery code of preprocessing or output-shape
\* preparation) no later Level 0 stage runs and no Level 0 result is returned;
\* the only Level 0 step still taken is the class-map step after a classifier
\* RuntimeError that was not re-raised, and it finds output unbound.  A call in
\* which only recoverable stages failed stays in Level 0.
C2_AbortingFailureAbandons ==
    \A r \in Requests :
        /\ Abandoned(r) =>
              /\ pc[r] \in Level0Pcs => pc[r] = "classmap" /\ output[r].base = "unbound"
              /\ pc[r] = "done" => level[r] \in {2, 3}
        /\ (model = "loaded" /\ pc[r] # "idle" /\ failed[r] \subseteq RecoveredStages) =>
              \/ pc[r] \in Level0Pcs
              \/ pc[r] = "done" /\ level[r] = 0

C2_Witness ==
    \E r \in Requests :
        /\ pc[r] = "done" /\ level[r] = 2
        /\ failed[r] = {"preprocess", "mask_class", "grading"}

\* C3: with the classifier unavailable or Level 0 failed, and no failure below,
\* the result is the Level 1 result and the level is 1.
C3_FallsToLevel1 ==
    \A r \in Requests :
        (pc[r] = "done" /\ (model = "None" \/ Abandoned(r)) /\ ~Level2Failed(r)) =>
            level[r] = 1

\* C4: for every input image (1x1 included) and every combination of failures,
\* no exception leaves the call: a running call can always take its next step,
\* it never ends in an escaped exception, and what it returns is an image.
C4_NoEscape ==
    \A r \in Requests :
        /\ pc[r] # "raised"
        /\ Running(r) => ENABLED Step(r)
        /\ pc[r] = "done" =>
              /\ result[r] \in ObjNames
              /\ Returned(r) # NoImage
              /\ Returned(r).mode \in Modes

C4_Witness ==
    \E r \in Requests :
        /\ pc[r] = "done" /\ arg0[r].size = <<1, 1>>
        /\ {"grading", "fallback_filter"} \subseteq failed[r]
        /\ Returned(r) = arg0[r]

\* C5 as stated: the image itself (level 3) is returned only by a call in which
\* Level 2 was attempted and raised.
C5_IdentityOnlyAfterLevel2 ==
    \A r \in Requests :
        (pc[r] = "done" /\ level[r] = 3) => (2 \in {Entered(r)[i] : i \in 1..Len(Entered(r))} /\ Level2Failed(r))

\* C5 amended: the image itself is returned only by a call in which Level 2 was
\* attempted and raised, or in which postprocess raised at the end of Level 0
\* (and then Level 2 was not attempted); what is returned is the object the name
\* `image` is bound to, that is the argument or its RGB conversion.
C5_IdentityOnlyAfterFailure ==
    \A r \in Requests :
        (pc[r] = "done" /\ level[r] = 3) =>
            /\ result[r] = image[r]
            /\ Returned(r) = WorkingImage(r)
            /\ \/ Entered(r)[Len(Entered(r)) - 1] = 2 /\ Level2Failed(r)
               \/ Entered(r) = <<0, 3>> /\ PostRaised(r) /\ ~Level2Failed(r)

C5_Witness ==
    \E r \in Requests :
        pc[r] = "done" /\ level[r] = 3 /\ PostRaised(r) /\ Entered(r) = <<0, 3>>

\* C6: a Level 0 result is always 512x512, whatever the size of the input, and a
\* result of a lower level has exactly the size of the image passed to the call.
C6_ResultSize ==
    \A r \in Requests :
        pc[r] = "done" =>
            /\ level[r] = 0 => Returned(r).size = <<ModelSize, ModelSize>>
            /\ level[r] \in {1, 2, 3} => Returned(r).size = arg0[r].size

C6_Witness ==
    \E r \in Requests :
        /\ pc[r] = "done" /\ level[r] = 0 /\ failed[r] = {}
        /\ arg0[r].size = <<2400, 1800>>
        /\ Returned(r).size = <<ModelSize, ModelSize>>

C8_ClassifierSerialized ==
    Cardinality({r \in Requests : pc[r] = "in_model"}) <= 1

\* C9: the image passed to the call is never mutated: while the call runs and
\* when it has returned, at any level and for any failure pattern, the caller's
\* image has the pixels, mode and size it had when the call began.
C9_InputNeverMutated ==
    \A r \in Requests : pc[r] # "idle" => heap[r]["arg"] = arg0[r]

C9_Witness ==
    \E r \in Requests :
        /\ pc[r] = "done" /\ level[r] = 2
        /\ arg0[r].mode = "L" /\ image[r] = "rgb"
        /\ Returned(r).mode = "RGB" /\ heap[r]["arg"].mode = "L"

\* the Level 0 image of a call, from its failures alone (masks[r] records the
\* classes whose mask was built)
FreshLevel0Image(r) ==
    IF "postprocess" \in failed[r] THEN BlankImage
    ELSE IF "shape_copy" \in failed[r]
    THEN [size |-> <<ModelSize, ModelSize>>, mode |-> "RGB",
          px |-> <<"level0", "zeros">>, graded |-> <<>>]
    ELSE [size |-> <<ModelSize, ModelSize>>, mode |-> "RGB",
          px |-> <<"level0", IF "preprocess" \in failed[r] THEN "blank" ELSE "image">>
                 \o <<"contrast">>
                 \o (IF "tint" \in failed[r] THEN <<>> ELSE <<"tint">>)
                 \o <<"edge_blend">>,
          graded |-> GradingOps(masks[r])]

\* level and result of a call on a freshly started process with the same
\* classifier availability, the same argument and the same failures
FreshOutcome(r) ==
    IF model = "None" \/ Abandoned(r)
    THEN IF Level2Failed(r)
         THEN <<3, WorkingImage(r)>>
         ELSE <<2, FilterChain(WorkingImage(r))>>
    ELSE IF PostRaised(r)
         THEN <<3, WorkingImage(r)>>
         ELSE <<0, FreshLevel0Image(r)>>

\* C10: stylization is stateless across requests: no step of a call changes the
\* shared classifier instance or the device selection, and a call made after
\* earlier calls (successful or degraded) returns the level and the result the
\* same call returns on a freshly started process.
C10_Stateless ==
    /\ [][UNCHANGED shared]_vars
    /\ [](\A r \in Requests :
             (pc[r] = "done" /\ served > 1) => <<level[r], Returned(r)>> = FreshOutcome(r))

C10_Witness ==
    \E r \in Requests :
        /\ pc[r] = "done" /\ served = MaxCalls /\ model = "loaded"
        /\ level[r] = 0 /\ failed[r] = {"mask_class", "tint"}

\* ------------------------------------------------------------------ C11
Border(d, p) == p[1] = 0 \/ p[1] = d[1] - 1 \/ p[2] = 0 \/ p[2] = d[2] - 1

\* the pixels above, below, left and right of p
Neighbours(d, p) ==
    {q \in Pixels(d) : \/ q[2] = p[2] /\ (q[1] = p[1] - 1 \/ q[1] = p[1] + 1)
                       \/ q[1] = p[1] /\ (q[2] = p[2] - 1 \/ q[2] = p[2] + 1)}

EdgesBuilt == phase \in {"edges", "blend", "final", "image"}

\* C11: on every class map the edge map is 0 along the first and last row and
\* column, and an interior pixel has edge value 1 exactly when one of its four
\* neighbours has another class.
C11_EdgeMapInteriorOnly ==
    EdgesBuilt =>
        \A p \in Pixels(scene.dims) :
            /\ edge_strength[p] \in {0, 1}
            /\ Border(scene.dims, p) => edge_strength[p] = 0
            /\ ~Border(scene.dims, p) =>
                   (edge_strength[p] = 1 <=>
                        \E q \in Neighbours(scene.dims, p) :
                            scene.class_map[q] # scene.class_map[p])

\* an edge map with a flagged and an unflagged interior pixel and with a border
\* pixel that lies on a class boundary
C11_Witness ==
    /\ phase = "edges"
    /\ \E p \in Pixels(scene.dims) : ~Border(scene.dims, p) /\ edge_strength[p] = 1
    /\ \E p \in Pixels(scene.dims) : ~Border(scene.dims, p) /\ edge_strength[p] = 0
    /\ \E p \in Pixels(scene.dims) :
           /\ Border(scene.dims, p)
           /\ \E q \in Neighbours(scene.dims, p) : scene.class_map[q] # scene.class_map[p]

\* ------------------------------------------------------------------ C12
InUnitRange(b) ==
    \A c \in ChannelIds : \A p \in Pixels(scene.dims) : b[c][p] >= 0 /\ b[c][p] <= One

\* C12: in a run without numeric fault every value of the buffer lies in [0, 1]
\* after the global grade (contrast, clamp, tint) and after the edge-aware blend.
C12_UnitRangeAfterGlobalAndDetail ==
    (phase \in {"tint", "edges", "blend"} /\ nonfinite = {}) => InUnitRange(buf)

\* a blended buffer of an image whose normalized values lie on both sides of
\* [0, 1], with blurred and kept pixels
C12_Witness ==
    /\ phase = "blend"
    /\ nonfinite = {}
    /\ \E c \in ChannelIds, p \in Pixels(scene.dims) : InputTensor(scene)[c][p] < 0
    /\ \E c \in ChannelIds, p \in Pixels(scene.dims) : InputTensor(scene)[c][p] > One
    /\ \E p \in Pixels(scene.dims) : edge_strength[p] = 1
    /\ \E c \in ChannelIds, p \in Pixels(scene.dims) : buf[c][p] # before[c][p]

\* ------------------------------------------------------------------ C13
\* C13: the buffer lies in [0, 1] after the sky stage, the vegetation stage and
\* the foreground stage as well as after the global grade and the edge blend.
C13_UnitRangeAfterEveryStage ==
    (phase \in {"sky", "veg", "char", "contrast", "tint", "edges", "blend"}
        /\ nonfinite = {}) => InUnitRange(buf)

\* ------------------------------------------------------------------ C14
ScenarioA ==
    [dims |-> <<4, 4>>, class_map |-> Uniform(<<4, 4>>, 0),
     img |-> Flat(<<4, 4>>, <<51, 51, 204>>)]

ScenarioADone == phase = "char" /\ scene = ScenarioA /\ Len(mask_list) = NumClasses

MasksBuilt == phase \notin {"off", "input", "clone"}

\* C15: the mask list has exactly numClasses masks and the mask at index i is
\* the smoothed occupancy of class i.
C15_MaskPerClass ==
    MasksBuilt =>
        /\ Len(mask_list) = NumClasses
        /\ \A i \in Classes :
               /\ mask_list[i + 1].cls = i
               /\ mask_list[i + 1].m = SmoothedMask(scene.class_map, scene.dims, i)

\* ------------------------------------------------------------------ C16
\* the sum over a mask list of the masks' values at p, in units of 1 / MaskArea
RECURSIVE MaskSum(_, _)
MaskSum(ms, p) == IF ms = <<>> THEN 0 ELSE Head(ms).m[p] + MaskSum(Tail(ms), p)

TwoClasses(cm, d) == \E p \in Pixels(d), q \in Pixels(d) : cm[p] # cm[q]

\* C16 as stated: among the class maps a run can be given, one with a class
\* boundary has a pixel where the masks of all classes sum to more than 1, and
\* one has a pixel where they sum to less than 1.
C16_SumAboveAndBelowOne ==
    phase = "input" =>
        /\ \E sc \in Scenes : \E p \in Pixels(sc.dims) :
               /\ TwoClasses(sc.class_map, sc.dims)
               /\ MaskSum(MaskBank(sc.class_map, sc.dims, {}), p) > MaskArea
        /\ \E sc \in Scenes : \E p \in Pixels(sc.dims) :
               MaskSum(MaskBank(sc.class_map, sc.dims, {}), p) < MaskArea

\* C16, amended: the masks never sum to more than 1; when no mask is missing
\* their sum at a pixel is the share of the 9x9 window that lies inside the
\* map, which is 1 only where the whole window is inside.
C16_SumIsWindowShare ==
    MasksBuilt =>
        \A p \in Pixels(scene.dims) :
            LET inside == Cardinality(Window(p, MaskKernel, MaskPad) \cap Pixels(scene.dims))
            IN  /\ MaskSum(mask_list, p) <= inside
                /\ inside <= MaskArea
                /\ Len(mask_list) = NumClasses => MaskSum(mask_list, p) = inside

\* all masks of a map with a class boundary: a pixel where the sum is 1 and a
\* pixel, with both classes in its window, where it is less
C16_Witness ==
    /\ phase = "masks"
    /\ Len(mask_list) = NumClasses
    /\ TwoClasses(scene.class_map, scene.dims)
    /\ \E p \in Pixels(scene.dims) : MaskSum(mask_list, p) = MaskArea
    /\ \E p \in Pixels(scene.dims) :
           /\ MaskSum(mask_list, p) < MaskArea
           /\ mask_list[1].m[p] > 0
           /\ mask_list[2].m[p] > 0

\* ------------------------------------------------------------------ C17
\* C17: a NaN or an infinity in the working buffer is 0 in the returned image.
C17_NonFiniteBecomesZero ==
    phase = "image" => \A f \in nonfinite : pil_image[f.c][f.p] = 0

\* ------------------------------------------------------------------ C18
\* the entries of a group whose class id has a mask, in code order
Present(g, ms) == SelectSeq(GroupOrder, LAMBDA e : e[1] = g /\ e[2] < Len(ms))

RECURSIVE FoldEntries(_, _, _)
FoldEntries(es, b, ms) ==
    IF es = <<>> THEN b
    ELSE FoldEntries(Tail(es), ApplyEntry(Head(es)[1], b, ms[Head(es)[2] + 1].m), ms)

StageDoes(g, prev) ==
    phase' = g =>
        /\ phase = prev
        /\ buf' = FoldEntries(Present(g, mask_list), buf, mask_list)
        /\ Present(g, mask_list) = <<>> => buf' = buf

WindowSum(ch, p) == SumOver(ch, Window(p, BlurKernel, BlurPad) \cap DOMAIN ch)

\* C19: after the edge-aware blend a pixel of edge value 1 has the value it had
\* before the stage, and a pixel of edge value 0 has the mean over the 5x5
\* window around it (cells outside the image counting as 0, divisor 25) of the
\* values the channel had before the stage.
C19_SharpEdgesSoftInterior ==
    (phase = "blend" /\ nonfinite = {}) =>
        \A c \in ChannelIds : \A p \in Pixels(scene.dims) :
            /\ edge_strength[p] = 1 => buf[c][p] = before[c][p]
            /\ edge_strength[p] = 0 =>
                   /\ BlurArea * buf[c][p] <= WindowSum(before[c], p)
                   /\ WindowSum(before[c], p) < BlurArea * (buf[c][p] + 1)

\* a blend that kept a pixel on a class boundary and changed a pixel off it
C19_Witness ==
    /\ phase = "blend"
    /\ nonfinite = {}
    /\ \E p \in Pixels(scene.dims) : edge_strength[p] = 1
    /\ \E c \in ChannelIds, p \in Pixels(scene.dims) :
           edge_strength[p] = 0 /\ buf[c][p] # before[c][p]

\* ------------------------------------------------------------------ C20
\* C20: two different requests never write the same path: with the same file
\* name their original images and their transformed images are saved under
\* different paths.
C20_RequestPathsDistinct ==
    \A u \in uploads, v \in uploads : u.no # v.no => u.path # v.path

\* ------------------------------------------------------------------ C21
\* the classifier call of r raised a RuntimeError that is not "CUDA out of
\* memory": the handler of lines 230-240 logged it and did not re-raise, and
\* the call has gone on to the class-map step or beyond
SwallowedRuntime(r) ==
    /\ "inference" \in failed[r]
    /\ "oom" \notin failed[r]
    /\ pc[r] = "classmap" \/ "classmap" \in failed[r]

CleanupEvents == {"empty_cache", "gc_collect"}

\* C21: after a RuntimeError of classifier inference that is not a
\* resource-exhaustion error, nothing is re-raised at the inference site, but
\* output is unbound, so the class-map step cannot succeed: no later Level 0
\* stage runs, the classifier is not invoked again, no device memory is
\* released, the next thing the call enters after the classifier is
\* apply_fallback_transform, and the call ends with that function's result
\* (its filtered image, or the image itself when the filters fail), never with
\* a Level 0 result.
C21_SwallowedRuntimeFallsBack ==
    \A r \in Requests :
        SwallowedRuntime(r) =>
            /\ output[r] = NoTensor
            /\ pc[r] \in {"classmap", "done"} \cup Level2Pcs
            /\ pc[r] = "classmap" => ~ENABLED ClassMap(r, "ok")
            /\ ModelCalls(r) = 1
            /\ \A i \in 1..Len(trace[r]) :
                   /\ trace[r][i] \notin CleanupEvents \cup {"reraise"}
                   /\ (trace[r][i] = "model" /\ i < Len(trace[r])) =>
                          trace[r][i + 1] = "level2"
            /\ pc[r] # "classmap" => Entered(r)[2] = 2
            /\ pc[r] = "done" =>
                   /\ level[r] \in {2, 3}
                   /\ level[r] = 2 => Returned(r) = FilterChain(WorkingImage(r))
                   /\ level[r] = 3 => Level2Failed(r) /\ Returned(r) = WorkingImage(r)

\* a call on a cuda device whose classifier raised such a RuntimeError and that
\* has returned the filtered image
C21_Witness ==
    \E r \in Requests :
        /\ SwallowedRuntime(r)
        /\ device = "cuda"
        /\ pc[r] = "done"
        /\ level[r] = 2
        /\ failed[r] = {"inference", "classmap"}

====
